---- MODULE Spec2Model ----
(***************************************************************************)
(* The SVG legend widget of maq-visuals-chartutils ("chartutils") and of   *)
(* maq-visuals-legend-chartutils ("legend"): construction, orientation,    *)
(* drawLegend, the layout pass and the navigation-arrow click handler.     *)
(*                                                                         *)
(* Lengths are integers counted in sub-pixels (Px to a pixel), so that the *)
(* halves, thirds and tenths of a pixel the code computes (7.5, 4/3 px to  *)
(* a point, the factors 0.3 and 1.3) are exact.                            *)
(***************************************************************************)
EXTENDS Integers, Sequences, FiniteSets, TLC

\* One pixel, in sub-pixels.
Px == 2 * 30

Max(a, b) == IF a > b THEN a ELSE b

\* x | 0 on a length: truncation toward zero to a whole pixel.
TruncPx(x) == IF x >= 0 THEN (x \div Px) * Px ELSE 0 - (((0 - x) \div Px) * Px)

\* (x / n) | 0 for a count n > 0.
TruncDivPx(x, n) == IF x >= 0 THEN (x \div (n * Px)) * Px ELSE 0 - (((0 - x) \div (n * Px)) * Px)

\* Math.ceil on a length.
CeilPx(x) == (0 - ((0 - x) \div Px)) * Px

(***************************************************************************)
(* Program constants (static fields of SVGLegend).                         *)
(***************************************************************************)
DefaultFontSizeInPt == 8
LegendIconRadius == 5 * Px
MaxTextLength == 60 * Px
MaxTitleLength == 80 * Px
TextAndIconPadding == 5 * Px
TitlePadding == 15 * Px
LegendEdgeMariginWidth == 10 * Px
\* Half of x, a fraction larger than LegendMaxWidthFactor.
TimesHalf(x) == x \div 2

\* x * LegendMaxWidthFactor, with LegendMaxWidthFactor = 0.3
TimesLegendMaxWidthFactor(x) == (3 * x) \div 10
TopLegendHeight == 24 * Px
LegendArrowOffset == 10 * Px
LegendArrowHeight == 15 * Px
LegendArrowWidth == (15 * Px) \div 2

\* PixelConverter.fromPointToPixel: 4/3 pixel to the point.
fromPointToPixel(pt) == (pt * 4 * Px) \div 3

DefaultTextMargin == fromPointToPixel(DefaultFontSizeInPt)

\* x * DefaultMaxLegendFactor, with DefaultMaxLegendFactor = MaxTitleLength / DefaultTextMargin
TimesDefaultMaxLegendFactor(x) == (x * MaxTitleLength) \div DefaultTextMargin

(***************************************************************************)
(* Values.  A JavaScript string is its number of characters n (an ellipsis *)
(* "..." counted apart); Undefined is the undefined value of a text field. *)
(* A font size of 0 is an undefined font size.                             *)
(***************************************************************************)
Undefined == [n |-> 0 - 1, ell |-> FALSE]
Text(n) == [n |-> n, ell |-> FALSE]

\* JavaScript truthiness of a string field: defined and not "".
Truthy(t) == t.n > 0 \/ t.ell

EllipsisLength == 3

\* fontSize || SVGLegend.DefaultFontSizeInPt
getTextProperties(fontSize) == IF fontSize = 0 THEN DefaultFontSizeInPt ELSE fontSize

\* The text service measures every character half as wide as the font is high.
CharWidth(fontSize) == fromPointToPixel(getTextProperties(fontSize)) \div 2

measureSvgTextWidth(t, fontSize) ==
    IF t.n < 0 THEN 0
    ELSE (t.n + (IF t.ell THEN EllipsisLength ELSE 0)) * CharWidth(fontSize)

estimateSvgTextHeight(fontSize) == fromPointToPixel(getTextProperties(fontSize))

\* The text if it fits maxWidth, else its longest prefix that fits with an
\* ellipsis appended ("..." alone when no prefix fits).
getTailoredTextOrDefault(t, fontSize, maxWidth) ==
    IF t.n <= 0 /\ ~t.ell THEN t
    ELSE IF measureSvgTextWidth(t, fontSize) <= maxWidth THEN t
    ELSE LET room == (maxWidth \div CharWidth(fontSize)) - EllipsisLength
             keep == IF room < 0 THEN 0 ELSE IF room > t.n THEN t.n ELSE room
         IN  [n |-> keep, ell |-> TRUE]

(***************************************************************************)
(* LegendPosition, and the classification of a placement.                  *)
(***************************************************************************)
LegendPosition == {"Top", "Bottom", "Right", "Left", "None",
                   "TopCenter", "BottomCenter", "RightCenter", "LeftCenter"}

isTopOrBottom(o) == o \in {"Top", "Bottom", "BottomCenter", "TopCenter"}

isCentered(o) == o \in {"BottomCenter", "LeftCenter", "RightCenter", "TopCenter"}

isLeftOrRight(o) == o \in {"Left", "Right", "LeftCenter", "RightCenter"}

\* Markers.LegendIconLineTotalWidth, the width of the long-dash line icon.
LegendIconLineTotalWidth == 31 * Px

getMarkerShapeWidth(markerShape) ==
    IF markerShape = "longDash" THEN LegendIconLineTotalWidth ELSE LegendIconRadius * 2

getLegendIconFactor(markerShape) == IF markerShape \in {"circle", "square"} THEN 5 ELSE 6

(***************************************************************************)
(* Objects.  obj names the JavaScript object a record stands for: "caller" *)
(* is an object of the caller of drawLegend, "clone" one the widget made   *)
(* with Prototype.inherit, "none" the undefined this.data of a widget that *)
(* has drawn nothing yet.  NoPosition is an unassigned position.           *)
(***************************************************************************)
NoPosition == [x |-> 0 - 1, y |-> 0 - 1]

NoData == [obj |-> "none", dataPoints |-> <<>>, title |-> Undefined, fontSize |-> 0,
           primaryType |-> "undefined", primaryTitle |-> Undefined,
           secondaryTitle |-> Undefined]

NoTitle == [present |-> FALSE, x |-> 0, y |-> 0, text |-> Undefined, width |-> 0, height |-> 0]

EmptyLayout == [numberOfItems |-> 0, title |-> NoTitle, navigationArrows |-> <<>>]

\* A data point handed on as it is: the caller's own object.
InheritPointShared(dp) == dp

\* Prototype.inherit of a data point: a new object that reads through to dp
\* and takes every later write itself.
InheritPoint(dp) == [dp EXCEPT !.obj = "clone"]

\* Prototype.inherit of the legend data, then clonedData.dataPoints = newDataPoints.
InheritData(d) ==
    [d EXCEPT !.obj = "clone",
              !.dataPoints = [i \in DOMAIN d.dataPoints |-> InheritPoint(d.dataPoints[i])]]

\* No tooltip saved.
setTooltipToNothing(d) == d

\* setTooltipToLegendItems: the label, saved before any cut.
setTooltipToLegendItems(d) ==
    [d EXCEPT !.dataPoints = [i \in DOMAIN d.dataPoints |->
                                 [d.dataPoints[i] EXCEPT !.tooltip = d.dataPoints[i].label]]]

(***************************************************************************)
(* What the caller's objects hold once the widget's data is d: a write to  *)
(* an object of the caller shows in the caller's data, a write to a clone  *)
(* does not.                                                               *)
(***************************************************************************)
CallerView(caller, d) ==
    IF d.obj = "caller" THEN d
    ELSE [caller EXCEPT !.dataPoints =
             [i \in DOMAIN caller.dataPoints |->
                 IF i \in DOMAIN d.dataPoints /\ d.dataPoints[i].obj = "caller"
                 THEN d.dataPoints[i] ELSE caller.dataPoints[i]]]

(***************************************************************************)
(* Pagination.                                                             *)
(***************************************************************************)
normalizePosition(startIndex, length) ==
    LET s1 == IF startIndex >= length THEN length - 1 ELSE startIndex
    IN  IF s1 < 0 THEN 0 ELSE s1

\* The previous arrow kept on the first page.
updateNavigationArrowLayoutNoShift(self, navigationArrows, remainingDataLength, visibleDataLength) ==
    IF Len(navigationArrows) > 0 /\ visibleDataLength = remainingDataLength
    THEN [arrows |-> SubSeq(navigationArrows, 1, Len(navigationArrows) - 1),
          arrowPosWindow |-> self.arrowPosWindow]
    ELSE [arrows |-> navigationArrows, arrowPosWindow |-> visibleDataLength]

\* The window size of the last page kept.
updateNavigationArrowLayoutNoRollback(self, navigationArrows, remainingDataLength, visibleDataLength) ==
    LET shifted == IF self.legendDataStartIndex = 0 /\ Len(navigationArrows) > 0
                   THEN Tail(navigationArrows) ELSE navigationArrows
    IN  IF Len(shifted) > 0 /\ visibleDataLength = remainingDataLength
        THEN [arrows |-> SubSeq(shifted, 1, Len(shifted) - 1),
              arrowPosWindow |-> visibleDataLength]
        ELSE [arrows |-> shifted, arrowPosWindow |-> visibleDataLength]

\* The window size never written.
updateNavigationArrowLayoutKeepsWindow(self, navigationArrows, remainingDataLength, visibleDataLength) ==
    LET shifted == IF self.legendDataStartIndex = 0 /\ Len(navigationArrows) > 0
                   THEN Tail(navigationArrows) ELSE navigationArrows
    IN  IF Len(shifted) > 0 /\ visibleDataLength = remainingDataLength
        THEN [arrows |-> SubSeq(shifted, 1, Len(shifted) - 1),
              arrowPosWindow |-> self.arrowPosWindow]
        ELSE [arrows |-> shifted, arrowPosWindow |-> self.arrowPosWindow]

\* Returns the arrows left and the new arrowPosWindow.
updateNavigationArrowLayout(self, navigationArrows, remainingDataLength, visibleDataLength) ==
    LET shifted == IF self.legendDataStartIndex = 0 /\ Len(navigationArrows) > 0
                   THEN Tail(navigationArrows) ELSE navigationArrows
        lastWindow == self.arrowPosWindow
    IN  IF Len(shifted) > 0 /\ visibleDataLength = remainingDataLength
        THEN [arrows |-> SubSeq(shifted, 1, Len(shifted) - 1), arrowPosWindow |-> lastWindow]
        ELSE [arrows |-> shifted, arrowPosWindow |-> visibleDataLength]

calculateHorizontalNavigationArrowsLayout(self, title) ==
    LET translateY == (self.viewport.height \div 2) - (LegendArrowHeight \div 2)
        rightShift == IF title.present THEN title.x + title.width ELSE 0
    IN  << [x |-> rightShift, y |-> translateY, dataType |-> "Decrease"],
           [x |-> self.parentViewport.width - LegendArrowWidth, y |-> translateY,
            dataType |-> "Increase"] >>

calculateVerticalNavigationArrowsLayout(self, title) ==
    LET verticalCenter == self.viewport.height \div 2
        rightShift == verticalCenter + (LegendArrowHeight \div 2)
        height0 == IF title.present THEN title.height ELSE 0
        titleHeight ==
            IF self.variant = "legend" /\ isLeftOrRight(self.orientation) /\ title.present
            THEN IF self.showPrimary /\ self.secondaryExists
                 THEN (height0 * 7) \div 2 ELSE (height0 * 5) \div 2
            ELSE height0
    IN  << [x |-> rightShift, y |-> LegendArrowWidth + titleHeight, dataType |-> "Decrease"],
           [x |-> rightShift, y |-> self.parentViewport.height - LegendArrowHeight,
            dataType |-> "Increase"] >>

(***************************************************************************)
(* Title layout.  Returns the title layout and, for the legend variant,    *)
(* the primary and secondary titles it writes to this.data and to this.    *)
(***************************************************************************)
\* The largest width the title may take.
TitleMaxMeasureLength(self) ==
    IF isTopOrBottom(self.orientation)
    THEN LET fontSizeMargin ==
                 IF self.legendFontSizeMarginValue > DefaultTextMargin
                 THEN TextAndIconPadding + self.legendFontSizeMarginDifference
                 ELSE TextAndIconPadding
             fixedHorizontalIconShift == TextAndIconPadding + LegendIconRadius
             fixedHorizontalTextShift ==
                 LegendIconRadius + fontSizeMargin + fixedHorizontalIconShift
         IN  TimesLegendMaxWidthFactor(self.parentViewport.width)
                 - fixedHorizontalTextShift - LegendEdgeMariginWidth
    ELSE IF self.legendFontSizeMarginValue < DefaultTextMargin
         THEN MaxTitleLength
         ELSE MaxTitleLength + TimesDefaultMaxLegendFactor(self.legendFontSizeMarginDifference)

calculateTitleLayoutChartutils(self, title) ==
    LET fs == self.data.fontSize
        isHorizontal == isTopOrBottom(self.orientation)
        maxMeasureLength == TitleMaxMeasureLength(self)
        titleWidth == measureSvgTextWidth(title, fs)
        over == titleWidth > maxMeasureLength
        text1 == IF over THEN getTailoredTextOrDefault(title, fs, maxMeasureLength) ELSE title
        width1 == IF over THEN maxMeasureLength ELSE titleWidth
        \* parseFloat(this.svg.style("width"))
        legendWidth == self.svg.width
    IN  IF ~Truthy(title)
        THEN [title |-> NoTitle, primaryTitle |-> self.primaryTitle,
              secondaryTitle |-> self.secondaryTitle, data |-> self.data]
        ELSE [title |-> [present |-> TRUE, x |-> 0, y |-> 0,
                         text |-> IF ~isHorizontal /\ width1 < maxMeasureLength
                                  THEN getTailoredTextOrDefault(title, fs, legendWidth)
                                  ELSE text1,
                         width |-> IF isHorizontal THEN width1 + TitlePadding ELSE width1,
                         height |-> estimateSvgTextHeight(fs)],
              primaryTitle |-> self.primaryTitle, secondaryTitle |-> self.secondaryTitle,
              data |-> self.data]

calculateTitleLayoutLegend(self, title) ==
    LET fs == self.data.fontSize
        d == self.data
        isHorizontal == isTopOrBottom(self.orientation)
        maxMeasureLength == TitleMaxMeasureLength(self)
        titleWidth == measureSvgTextWidth(title, fs)
        primaryTitleWidth ==
            IF Truthy(d.primaryTitle) THEN measureSvgTextWidth(d.primaryTitle, fs) ELSE 0
        secondaryTitleWidth ==
            IF Truthy(d.secondaryTitle) THEN measureSvgTextWidth(d.secondaryTitle, fs) ELSE 0
        over == \/ titleWidth > maxMeasureLength
                \/ primaryTitleWidth > maxMeasureLength
                \/ secondaryTitleWidth > maxMeasureLength
        text1 == IF over THEN getTailoredTextOrDefault(title, fs, maxMeasureLength) ELSE title
        width1 == IF over THEN maxMeasureLength
                  ELSE Max(titleWidth, Max(primaryTitleWidth, secondaryTitleWidth))
        \* the titles after the first truncation
        p1 == IF over /\ Truthy(d.primaryTitle)
              THEN getTailoredTextOrDefault(d.primaryTitle, fs, maxMeasureLength)
              ELSE d.primaryTitle
        s1 == IF over /\ Truthy(d.secondaryTitle)
              THEN getTailoredTextOrDefault(d.secondaryTitle, fs, maxMeasureLength)
              ELSE d.secondaryTitle
        thisP1 == IF over /\ ~Truthy(d.primaryTitle) THEN self.primaryTitle ELSE p1
        thisS1 == IF over /\ ~Truthy(d.secondaryTitle) THEN self.secondaryTitle ELSE s1
        \* parseFloat(this.svg.style("width"))
        legendWidth == self.svg.width
        legendOffset == 10 * Px
        again == /\ ~isHorizontal
                 /\ \/ width1 < maxMeasureLength
                    \/ width1 < primaryTitleWidth
                    \/ width1 < secondaryTitleWidth
        primTitle == getTailoredTextOrDefault(p1, fs, legendWidth - legendOffset)
        setP == /\ again /\ Truthy(p1)
                /\ (primTitle # [n |-> 0, ell |-> TRUE] \/ legendWidth < primaryTitleWidth)
                /\ legendWidth # 0
        secTitle == getTailoredTextOrDefault(s1, fs, legendWidth - legendOffset)
        setS == /\ again /\ Truthy(s1)
                /\ (secTitle # [n |-> 0, ell |-> TRUE] \/ legendWidth < secondaryTitleWidth)
                /\ legendWidth # 0
        p2 == IF setP THEN primTitle ELSE p1
        s2 == IF setS THEN secTitle ELSE s1
    IN  IF ~Truthy(title)
        THEN [title |-> NoTitle, primaryTitle |-> self.primaryTitle,
              secondaryTitle |-> self.secondaryTitle, data |-> self.data]
        ELSE [title |-> [present |-> TRUE, x |-> 0, y |-> 0,
                         text |-> IF again
                                  THEN getTailoredTextOrDefault(title, fs, legendWidth)
                                  ELSE text1,
                         width |-> IF isHorizontal THEN width1 + TitlePadding ELSE width1,
                         height |-> estimateSvgTextHeight(fs)],
              primaryTitle |-> IF setP THEN primTitle ELSE thisP1,
              secondaryTitle |-> IF setS THEN secTitle ELSE thisS1,
              data |-> [d EXCEPT !.primaryTitle = p2, !.secondaryTitle = s2]]

calculateTitleLayout(self, title) ==
    IF self.variant = "legend"
    THEN calculateTitleLayoutLegend(self, title)
    ELSE calculateTitleLayoutChartutils(self, title)

(***************************************************************************)
(* Item layout.  dataPoints is the whole point list of this.data; the      *)
(* window the code slices off it starts at start = legendDataStartIndex    *)
(* (0-based), so window item itr is dataPoints[start + itr + 1].           *)
(***************************************************************************)
\* The widest of the label, the primary measure and the secondary measure.
WidestOf(labelwidth, primaryWidth, secondaryWidth) ==
    IF labelwidth > primaryWidth
    THEN (IF labelwidth > secondaryWidth THEN labelwidth ELSE secondaryWidth)
    ELSE (IF primaryWidth > secondaryWidth THEN primaryWidth ELSE secondaryWidth)

\* Whether the secondary measure of a point is measured and truncated.
UsesSecondary(self) ==
    IF self.variant = "legend" THEN self.secondaryExists ELSE self.showPrimary

\* The scan for a non-empty secondary measure over a list of points.
ScanSecondaryExists(points, before) ==
    IF Len(points) = 0 THEN before
    ELSE \E i \in DOMAIN points : Truthy(points[i].secondaryMeasure)

\* An iteration that counts the icon and the paddings of an item and no
\* width for its texts.
HorizontalItemNoTextSpace(self, c, dataPoint, occupiedWidth) ==
    LET fs == self.data.fontSize
        markerShapeWidth == getMarkerShapeWidth(dataPoint.markerShape)
        glyphX == occupiedWidth + (markerShapeWidth \div 2)
                  + (IF self.variant = "legend"
                     THEN self.legendFontSizeMarginDifference
                              \div getLegendIconFactor(dataPoint.markerShape)
                     ELSE 0)
        labelwidth == measureSvgTextWidth(dataPoint.label, fs)
        primaryWidth == IF self.showPrimary
                        THEN measureSvgTextWidth(dataPoint.measure, fs) ELSE 0
        secondaryWidth == IF UsesSecondary(self)
                          THEN measureSvgTextWidth(dataPoint.secondaryMeasure, fs) ELSE 0
        width == WidestOf(labelwidth, primaryWidth, secondaryWidth) + 15 * Px
        placed == [dataPoint EXCEPT
                      !.glyphPosition = [x |-> glyphX, y |-> c.fixedIconShift],
                      !.textPosition = [x |-> occupiedWidth + c.fixedTextShift,
                                        y |-> c.fixedTextShift]]
    IN  IF width < c.maxTextLength
        THEN [dataPoint |-> placed, spaceTakenByItem |-> c.iconTotalItemPadding]
        ELSE [dataPoint |->
                 [placed EXCEPT
                     !.label = getTailoredTextOrDefault(dataPoint.label, fs, c.maxTextLength),
                     !.measure =
                         IF self.showPrimary
                         THEN getTailoredTextOrDefault(dataPoint.measure, fs, c.maxTextLength)
                         ELSE dataPoint.measure,
                     !.secondaryMeasure =
                         IF UsesSecondary(self)
                         THEN getTailoredTextOrDefault(dataPoint.secondaryMeasure, fs,
                                  IF self.variant = "legend" THEN c.maxTextLength
                                  ELSE c.percentTextLength)
                         ELSE dataPoint.secondaryMeasure],
              spaceTakenByItem |-> c.iconTotalItemPadding]

\* An iteration that cuts the measures against what the cut label leaves
\* of the budget: one total shared by the texts of the item.
HorizontalItemSharedBudget(self, c, dataPoint, occupiedWidth) ==
    LET fs == self.data.fontSize
        markerShapeWidth == getMarkerShapeWidth(dataPoint.markerShape)
        glyphX == occupiedWidth + (markerShapeWidth \div 2)
                  + (IF self.variant = "legend"
                     THEN self.legendFontSizeMarginDifference
                              \div getLegendIconFactor(dataPoint.markerShape)
                     ELSE 0)
        labelwidth == measureSvgTextWidth(dataPoint.label, fs)
        primaryWidth == IF self.showPrimary
                        THEN measureSvgTextWidth(dataPoint.measure, fs) ELSE 0
        secondaryWidth == IF UsesSecondary(self)
                          THEN measureSvgTextWidth(dataPoint.secondaryMeasure, fs) ELSE 0
        width == WidestOf(labelwidth, primaryWidth, secondaryWidth) + 15 * Px
        left == c.maxTextLength
                - measureSvgTextWidth(
                      getTailoredTextOrDefault(dataPoint.label, fs, c.maxTextLength), fs)
        placed == [dataPoint EXCEPT
                      !.glyphPosition = [x |-> glyphX, y |-> c.fixedIconShift],
                      !.textPosition = [x |-> occupiedWidth + c.fixedTextShift,
                                        y |-> c.fixedTextShift]]
    IN  IF width < c.maxTextLength
        THEN [dataPoint |-> placed, spaceTakenByItem |-> c.iconTotalItemPadding + width]
        ELSE [dataPoint |->
                 [placed EXCEPT
                     !.label = getTailoredTextOrDefault(dataPoint.label, fs, c.maxTextLength),
                     !.measure =
                         IF self.showPrimary
                         THEN getTailoredTextOrDefault(dataPoint.measure, fs, left)
                         ELSE dataPoint.measure,
                     !.secondaryMeasure =
                         IF UsesSecondary(self)
                         THEN getTailoredTextOrDefault(dataPoint.secondaryMeasure, fs, left)
                         ELSE dataPoint.secondaryMeasure],
              spaceTakenByItem |-> c.iconTotalItemPadding + c.maxTextLength]

\* One iteration of the loop of calculateHorizontalLayout, up to the break test.
HorizontalItem(self, c, dataPoint, occupiedWidth) ==
    LET fs == self.data.fontSize
        markerShapeWidth == getMarkerShapeWidth(dataPoint.markerShape)
        glyphX == occupiedWidth + (markerShapeWidth \div 2)
                  + (IF self.variant = "legend"
                     THEN self.legendFontSizeMarginDifference
                              \div getLegendIconFactor(dataPoint.markerShape)
                     ELSE 0)
        labelwidth == measureSvgTextWidth(dataPoint.label, fs)
        primaryWidth == IF self.showPrimary
                        THEN measureSvgTextWidth(dataPoint.measure, fs) ELSE 0
        secondaryWidth == IF UsesSecondary(self)
                          THEN measureSvgTextWidth(dataPoint.secondaryMeasure, fs) ELSE 0
        width == WidestOf(labelwidth, primaryWidth, secondaryWidth) + 15 * Px
        placed == [dataPoint EXCEPT
                      !.glyphPosition = [x |-> glyphX, y |-> c.fixedIconShift],
                      !.textPosition = [x |-> occupiedWidth + c.fixedTextShift,
                                        y |-> c.fixedTextShift]]
    IN  IF width < c.maxTextLength
        THEN [dataPoint |-> placed, spaceTakenByItem |-> c.iconTotalItemPadding + width]
        ELSE [dataPoint |->
                 [placed EXCEPT
                     !.label = getTailoredTextOrDefault(dataPoint.label, fs, c.maxTextLength),
                     !.measure =
                         IF self.showPrimary
                         THEN getTailoredTextOrDefault(dataPoint.measure, fs, c.maxTextLength)
                         ELSE dataPoint.measure,
                     !.secondaryMeasure =
                         IF UsesSecondary(self)
                         THEN getTailoredTextOrDefault(dataPoint.secondaryMeasure, fs,
                                  IF self.variant = "legend" THEN c.maxTextLength
                                  ELSE c.percentTextLength)
                         ELSE dataPoint.secondaryMeasure],
              spaceTakenByItem |-> c.iconTotalItemPadding + c.maxTextLength]

\* The loop without its break: every point of the window is shown.
RECURSIVE HorizontalLoopShowsAll(_, _, _, _, _)
HorizontalLoopShowsAll(self, c, dataPoints, itr, occupiedWidth) ==
    IF itr >= c.dataPointsLength
    THEN [dataPoints |-> dataPoints, occupiedWidth |-> occupiedWidth,
          numberOfItems |-> c.dataPointsLength]
    ELSE LET r == HorizontalItem(self, c, dataPoints[c.start + itr + 1], occupiedWidth)
             pts == [dataPoints EXCEPT ![c.start + itr + 1] = r.dataPoint]
         IN  HorizontalLoopShowsAll(self, c, pts, itr + 1, occupiedWidth + r.spaceTakenByItem)

\* The loop counting the item that overflows as shown.
RECURSIVE HorizontalLoopCountsOverflow(_, _, _, _, _)
HorizontalLoopCountsOverflow(self, c, dataPoints, itr, occupiedWidth) ==
    IF itr >= c.dataPointsLength
    THEN [dataPoints |-> dataPoints, occupiedWidth |-> occupiedWidth,
          numberOfItems |-> c.dataPointsLength]
    ELSE LET r == HorizontalItem(self, c, dataPoints[c.start + itr + 1], occupiedWidth)
             pts == [dataPoints EXCEPT ![c.start + itr + 1] = r.dataPoint]
             occ == occupiedWidth + r.spaceTakenByItem
         IN  IF occ > c.parentWidth
             THEN [dataPoints |-> pts, occupiedWidth |-> occ, numberOfItems |-> itr + 1]
             ELSE HorizontalLoopCountsOverflow(self, c, pts, itr + 1, occ)

RECURSIVE HorizontalLoop(_, _, _, _, _)
HorizontalLoop(self, c, dataPoints, itr, occupiedWidth) ==
    IF itr >= c.dataPointsLength
    THEN [dataPoints |-> dataPoints, occupiedWidth |-> occupiedWidth,
          numberOfItems |-> c.dataPointsLength]
    ELSE LET r == HorizontalItem(self, c, dataPoints[c.start + itr + 1], occupiedWidth)
             pts == [dataPoints EXCEPT ![c.start + itr + 1] = r.dataPoint]
             occ == occupiedWidth + r.spaceTakenByItem
         IN  IF occ > c.parentWidth
             THEN [dataPoints |-> pts, occupiedWidth |-> occ, numberOfItems |-> itr]
             ELSE HorizontalLoop(self, c, pts, itr + 1, occ)

\* The width the title and the previous arrow take before the first item.
HorizontalOccupiedBefore(self, title) ==
    (IF title.present THEN title.width ELSE 0)
    + (IF self.legendDataStartIndex > 0 THEN LegendArrowOffset ELSE 0)

\* iconTotalItemPadding: the icon and the paddings around an item.
HorizontalItemPadding(self, dataPoints) ==
    getMarkerShapeWidth(dataPoints[self.legendDataStartIndex + 1].markerShape)
    + 3 * (IF self.legendFontSizeMarginDifference > 0
           THEN TextAndIconPadding + self.legendFontSizeMarginDifference
           ELSE TextAndIconPadding)

\* maxTextLength: the even split of the width left, at least MaxTextLength.
HorizontalMaxTextLength(self, dataPoints, title) ==
    LET dataPointsLength == Len(dataPoints) - self.legendDataStartIndex
    IN  Max(MaxTextLength,
            TruncDivPx(self.parentViewport.width - HorizontalOccupiedBefore(self, title)
                           - HorizontalItemPadding(self, dataPoints) * dataPointsLength,
                       dataPointsLength))

\* percentTextLength: the even split of the width left, paddings included.
HorizontalPercentTextLength(self, dataPoints, title) ==
    Max(MaxTextLength,
        TruncDivPx(self.parentViewport.width - HorizontalOccupiedBefore(self, title),
                   Len(dataPoints) - self.legendDataStartIndex))

calculateHorizontalLayout(self, dataPoints, title, navigationArrows) ==
    LET start == self.legendDataStartIndex
        dataPointsLength == Len(dataPoints) - start
        first == dataPoints[start + 1]
        fontSizeBiggerThanDefault == self.legendFontSizeMarginDifference > 0
        fontSizeMargin == IF fontSizeBiggerThanDefault
                          THEN TextAndIconPadding + self.legendFontSizeMarginDifference
                          ELSE TextAndIconPadding
        fixedTextShift == (getMarkerShapeWidth(first.markerShape) \div 2)
                          + fontSizeMargin + 4 * Px
        fixedIconShift == 11 * Px + (IF fontSizeBiggerThanDefault
                                     THEN self.legendFontSizeMarginDifference ELSE 0)
        iconTotalItemPadding == HorizontalItemPadding(self, dataPoints)
        occupied0 == HorizontalOccupiedBefore(self, title)
        parentWidth == self.parentViewport.width
        maxTextLength == HorizontalMaxTextLength(self, dataPoints, title)
        percentTextLength == HorizontalPercentTextLength(self, dataPoints, title)
        c == [start |-> start, dataPointsLength |-> dataPointsLength,
              fixedTextShift |-> fixedTextShift, fixedIconShift |-> fixedIconShift,
              iconTotalItemPadding |-> iconTotalItemPadding, parentWidth |-> parentWidth,
              maxTextLength |-> maxTextLength, percentTextLength |-> percentTextLength]
        r == HorizontalLoop(self, c, dataPoints, 0, occupied0)
        nav == updateNavigationArrowLayout(self, navigationArrows, dataPointsLength,
                                           r.numberOfItems)
    IN  IF self.showPrimary /\ first.measure.n < 0
        THEN \* dataPoints[0]["measure"].length of an undefined measure: TypeError
             [threw |-> TRUE, dataPoints |-> dataPoints, title |-> title,
              navigationArrows |-> navigationArrows, numberOfItems |-> 0,
              visibleLegendWidth |-> self.visibleLegendWidth,
              visibleLegendHeight |-> self.visibleLegendHeight,
              arrowPosWindow |-> self.arrowPosWindow,
              lastCalculatedWidth |-> self.lastCalculatedWidth,
              viewport |-> self.viewport, secondaryExists |-> self.secondaryExists]
        ELSE [threw |-> FALSE, dataPoints |-> r.dataPoints,
              title |-> IF title.present THEN [title EXCEPT !.y = fixedTextShift] ELSE title,
              navigationArrows |-> nav.arrows, numberOfItems |-> r.numberOfItems,
              visibleLegendWidth |-> r.occupiedWidth,
              visibleLegendHeight |-> self.visibleLegendHeight,
              arrowPosWindow |-> nav.arrowPosWindow,
              lastCalculatedWidth |-> self.lastCalculatedWidth,
              viewport |-> self.viewport, secondaryExists |-> self.secondaryExists]

\* One iteration of the loop of calculateVerticalLayout, up to the break test.
VerticalItem(self, c, dp, totalSpaceOccupiedThusFar) ==
    LET fs == self.data.fontSize
        diff == self.legendFontSizeMarginDifference
        rows == IF self.variant = "legend"
                THEN (IF self.showPrimary THEN 20 * Px + (diff \div 2) ELSE 0)
                     + (IF c.secondaryExists THEN 20 * Px + (diff \div 2) ELSE 0)
                ELSE (IF self.showPrimary THEN (20 * Px + (diff \div 2)) * 2 ELSE 0)
        usesSecondary == IF self.variant = "legend" THEN c.secondaryExists ELSE self.showPrimary
        labelwidth == measureSvgTextWidth(dp.label, fs)
        primaryWidth == IF self.showPrimary THEN measureSvgTextWidth(dp.measure, fs) ELSE 0
        secondaryWidth == IF usesSecondary
                          THEN measureSvgTextWidth(dp.secondaryMeasure, fs) ELSE 0
        width == WidestOf(labelwidth, primaryWidth, secondaryWidth) + 15 * Px
        placed == [dp EXCEPT
                      !.glyphPosition = [x |-> c.fixedHorizontalIconShift,
                                         y |-> totalSpaceOccupiedThusFar + c.fontFactor],
                      !.textPosition = [x |-> c.fixedHorizontalTextShift,
                                        y |-> totalSpaceOccupiedThusFar
                                              + c.extraShiftForTextAlignmentToIcon]]
    IN  [dataPoint |->
            IF width > c.maxHorizontalSpaceAvaliable
            THEN [placed EXCEPT
                     !.label = getTailoredTextOrDefault(dp.label, fs,
                                                        c.maxHorizontalSpaceAvaliable),
                     !.measure =
                         IF self.showPrimary
                         THEN getTailoredTextOrDefault(dp.measure, fs,
                                  c.maxHorizontalSpaceAvaliable - 18 * Px)
                         ELSE dp.measure,
                     !.secondaryMeasure =
                         IF usesSecondary
                         THEN getTailoredTextOrDefault(dp.secondaryMeasure, fs,
                                  c.maxHorizontalSpaceAvaliable - 18 * Px)
                         ELSE dp.secondaryMeasure]
            ELSE placed,
         width |-> width,
         totalSpaceOccupiedThusFar |-> totalSpaceOccupiedThusFar + rows + c.verticalLegendHeight]

RECURSIVE VerticalLoop(_, _, _, _, _, _)
VerticalLoop(self, c, dataPoints, itr, totalSpaceOccupiedThusFar, maxHorizontalSpaceUsed) ==
    IF itr >= c.dataPointsLength
    THEN [dataPoints |-> dataPoints, totalSpaceOccupiedThusFar |-> totalSpaceOccupiedThusFar,
          maxHorizontalSpaceUsed |-> maxHorizontalSpaceUsed,
          numberOfItems |-> c.dataPointsLength]
    ELSE LET r == VerticalItem(self, c, dataPoints[c.start + itr + 1],
                               totalSpaceOccupiedThusFar)
             pts == [dataPoints EXCEPT ![c.start + itr + 1] = r.dataPoint]
             used == Max(maxHorizontalSpaceUsed, r.width)
         IN  IF r.totalSpaceOccupiedThusFar > c.parentHeight
             THEN [dataPoints |-> pts,
                   totalSpaceOccupiedThusFar |-> r.totalSpaceOccupiedThusFar,
                   maxHorizontalSpaceUsed |-> used, numberOfItems |-> itr]
             ELSE VerticalLoop(self, c, pts, itr + 1, r.totalSpaceOccupiedThusFar, used)

\* fixedHorizontalIconShift: where the icons of a vertical legend stand.
VerticalIconShift(self, dataPoints) ==
    TextAndIconPadding
    + (getMarkerShapeWidth(dataPoints[self.legendDataStartIndex + 1].markerShape) \div 2)
    + (IF self.variant = "legend" THEN self.legendFontSizeMarginDifference ELSE 0)

\* maxHorizontalSpaceAvaliable: the width a text of a vertical legend may take.
VerticalMaxHorizontalSpace(self, dataPoints, autoWidth) ==
    (IF autoWidth THEN TimesLegendMaxWidthFactor(self.parentViewport.width)
     ELSE self.lastCalculatedWidth)
    - VerticalIconShift(self, dataPoints) * 2 - LegendEdgeMariginWidth

calculateVerticalLayout(self, dataPoints, title, navigationArrows, autoWidth) ==
    LET start == self.legendDataStartIndex
        dataPointsLength == Len(dataPoints) - start
        first == dataPoints[start + 1]
        diff == self.legendFontSizeMarginDifference
        fontFactor == IF diff > 0 THEN diff ELSE 0
        verticalLegendHeight == 20 * Px + fontFactor
        spaceNeededByTitle == 15 * Px + ((fontFactor * 13) \div 10)
        extraShiftForTextAlignmentToIcon == 4 * Px + ((fontFactor * 13) \div 10)
        fixedHorizontalIconShift == VerticalIconShift(self, dataPoints)
        fixedHorizontalTextShift == fixedHorizontalIconShift * 2
        maxHorizontalSpaceAvaliable == VerticalMaxHorizontalSpace(self, dataPoints, autoWidth)
        \* the second reservation under a title
        titleRows ==
            IF self.variant = "legend"
               /\ Truthy(self.data.primaryTitle) /\ Truthy(self.data.secondaryTitle)
               /\ self.showPrimary
            THEN 3 * spaceNeededByTitle + (diff \div 2)
            ELSE IF self.variant = "legend"
                    /\ (Truthy(self.data.secondaryTitle) \/ Truthy(self.data.primaryTitle))
            THEN 2 * spaceNeededByTitle + (diff \div 2)
            ELSE spaceNeededByTitle
        secondaryExists ==
            IF self.variant = "legend"
            THEN ScanSecondaryExists(SubSeq(dataPoints, start + 1, Len(dataPoints)),
                                     self.secondaryExists)
            ELSE self.secondaryExists
        total0 == (IF title.present THEN spaceNeededByTitle + titleRows
                   ELSE spaceNeededByTitle)
                  + (IF start > 0 THEN LegendArrowOffset ELSE 0)
        c == [start |-> start, dataPointsLength |-> dataPointsLength,
              fontFactor |-> fontFactor, verticalLegendHeight |-> verticalLegendHeight,
              extraShiftForTextAlignmentToIcon |-> extraShiftForTextAlignmentToIcon,
              fixedHorizontalIconShift |-> fixedHorizontalIconShift,
              fixedHorizontalTextShift |-> fixedHorizontalTextShift,
              maxHorizontalSpaceAvaliable |-> maxHorizontalSpaceAvaliable,
              parentHeight |-> self.parentViewport.height,
              secondaryExists |-> secondaryExists]
        r == VerticalLoop(self, c, dataPoints, 0, total0,
                          IF title.present THEN title.width ELSE 0)
        lastCalculatedWidth ==
            IF autoWidth
            THEN IF r.maxHorizontalSpaceUsed < maxHorizontalSpaceAvaliable
                 THEN CeilPx(r.maxHorizontalSpaceUsed + fixedHorizontalTextShift
                             + LegendEdgeMariginWidth)
                 ELSE CeilPx(TimesLegendMaxWidthFactor(self.parentViewport.width))
            ELSE self.lastCalculatedWidth
        title1 == IF title.present
                  THEN [title EXCEPT
                           !.x = TextAndIconPadding, !.y = spaceNeededByTitle,
                           !.text = IF self.variant = "legend" THEN title.text
                                    ELSE getTailoredTextOrDefault(self.data.title,
                                             self.data.fontSize, lastCalculatedWidth)]
                  ELSE title
        arrows == [i \in DOMAIN navigationArrows |->
                      [navigationArrows[i] EXCEPT !.x = lastCalculatedWidth \div 2]]
        nav == updateNavigationArrowLayout(self, arrows, dataPointsLength, r.numberOfItems)
    IN  [threw |-> FALSE, dataPoints |-> r.dataPoints, title |-> title1,
         navigationArrows |-> nav.arrows, numberOfItems |-> r.numberOfItems,
         visibleLegendWidth |-> self.visibleLegendWidth,
         visibleLegendHeight |-> r.totalSpaceOccupiedThusFar - verticalLegendHeight,
         arrowPosWindow |-> nav.arrowPosWindow,
         lastCalculatedWidth |-> lastCalculatedWidth,
         viewport |-> [self.viewport EXCEPT !.width = lastCalculatedWidth],
         secondaryExists |-> secondaryExists]

(***************************************************************************)
(* The layout pass and the handlers around it.  self is the widget (the    *)
(* fields of this), and every operator returns the widget it leaves.       *)
(***************************************************************************)
\* Returns the viewport; threw when this.data is read while undefined.
calculateViewport(self) ==
    IF isTopOrBottom(self.orientation)
    THEN LET pixelHeight == fromPointToPixel(
                 IF self.data.obj # "none" /\ self.data.fontSize # 0
                 THEN self.data.fontSize ELSE DefaultFontSizeInPt)
             fontHeightSize == TopLegendHeight + (pixelHeight - DefaultFontSizeInPt * Px)
         IN  [threw |-> FALSE, viewport |-> [height |-> fontHeightSize, width |-> 0]]
    ELSE IF isLeftOrRight(self.orientation)
    THEN IF self.data.obj = "none"
         THEN [threw |-> TRUE, viewport |-> self.viewport]
         ELSE LET width == IF self.lastCalculatedWidth # 0 THEN self.lastCalculatedWidth
                           ELSE TimesLegendMaxWidthFactor(self.parentViewport.width)
              IN  [threw |-> FALSE,
                   viewport |-> [height |-> 0,
                                 \* width + undefined is NaN
                                 width |-> IF self.data.fontSize = 0 THEN "NaN"
                                           ELSE width + self.data.fontSize * Px]]
    ELSE [threw |-> FALSE, viewport |-> [height |-> 0, width |-> 0]]

\* Returns the widget with the viewport height and the svg attributes updated.
updateLayout(self) ==
    LET extra ==
            IF self.data.obj # "none" /\ isTopOrBottom(self.orientation)
            THEN IF self.variant = "legend"
                 THEN IF self.showPrimary /\ self.secondaryExists
                      THEN 3 * self.legendFontSizeMarginDifference + 20 * Px
                      ELSE 2 * self.legendFontSizeMarginDifference + 20 * Px
                 ELSE IF self.showPrimary
                      THEN 3 * self.legendFontSizeMarginDifference + 20 * Px
                      ELSE 0
            ELSE 0
        legendViewport == [self.viewport EXCEPT !.height = self.viewport.height + extra]
    IN  [self EXCEPT
            !.viewport = legendViewport,
            !.svg = [height |-> IF legendViewport.height # 0 THEN legendViewport.height
                                ELSE IF self.orientation = "None" THEN 0
                                ELSE self.parentViewport.height,
                     width |-> IF legendViewport.width # 0 THEN legendViewport.width
                               ELSE IF self.orientation = "None" THEN 0
                               ELSE self.parentViewport.width]]

\* None taken for an unset placement.
changeOrientationNoneAsUnset(self, orientation) ==
    [self EXCEPT !.orientation = IF orientation \in {"Unset", "Top", "None"} THEN "Top"
                                 ELSE orientation]

changeOrientation(self, orientation) ==
    [self EXCEPT !.orientation = IF orientation \in {"Unset", "Top"} THEN "Top"
                                 ELSE orientation]

\* The end of calculateLayout: the fields the item layout r has written to
\* the widget s2, and the layout returned.
LayoutReturned(s2, r) ==
    [threw |-> r.threw,
     self |-> [s2 EXCEPT
                  !.data = [s2.data EXCEPT !.dataPoints = r.dataPoints],
                  !.visibleLegendWidth = r.visibleLegendWidth,
                  !.visibleLegendHeight = r.visibleLegendHeight,
                  !.arrowPosWindow = r.arrowPosWindow,
                  !.lastCalculatedWidth = r.lastCalculatedWidth,
                  !.viewport = r.viewport,
                  !.secondaryExists = r.secondaryExists],
     layout |-> [numberOfItems |-> r.numberOfItems, title |-> r.title,
                 navigationArrows |-> r.navigationArrows]]

\* calculateLayout once calculateTitleLayout has returned t: the arrows and
\* the item layout of the orientation.
LayoutItems(s1, t, autoWidth) ==
    LET s2 == [s1 EXCEPT !.data = t.data, !.primaryTitle = t.primaryTitle,
                         !.secondaryTitle = t.secondaryTitle]
    IN  LayoutReturned(s2,
            IF isTopOrBottom(s2.orientation)
            THEN calculateHorizontalLayout(s2, s2.data.dataPoints, t.title,
                     IF s2.isScrollable
                     THEN calculateHorizontalNavigationArrowsLayout(s2, t.title)
                     ELSE <<>>)
            ELSE calculateVerticalLayout(s2, s2.data.dataPoints, t.title,
                     IF s2.isScrollable
                     THEN calculateVerticalNavigationArrowsLayout(s2, t.title)
                     ELSE <<>>,
                     autoWidth))

\* Returns the widget after the pass, the layout, and threw.
calculateLayout(self, autoWidth) ==
    IF Len(self.data.dataPoints) = 0
    THEN [threw |-> FALSE, self |-> self, layout |-> EmptyLayout]
    ELSE LET pixels == fromPointToPixel(
                 IF self.data.fontSize # 0 THEN self.data.fontSize
                 ELSE DefaultFontSizeInPt)
             s1 == [self EXCEPT
                       !.legendFontSizeMarginValue = pixels,
                       !.legendFontSizeMarginDifference = pixels - DefaultTextMargin,
                       !.legendDataStartIndex =
                           normalizePosition(self.legendDataStartIndex,
                                             Len(self.data.dataPoints))]
         IN  LayoutItems(s1, calculateTitleLayout(s1, s1.data.title), autoWidth)

\* The translation of the wrapping group; without is a removed transform.
GroupTransform(self) ==
    IF ~isCentered(self.orientation) THEN [without |-> TRUE, x |-> 0, y |-> 0]
    ELSE IF isTopOrBottom(self.orientation)
    THEN [without |-> FALSE,
          x |-> Max(0, (self.parentViewport.width - self.visibleLegendWidth) \div 2),
          y |-> 0]
    ELSE [without |-> FALSE, x |-> 0,
          y |-> Max(0, (self.parentViewport.height - self.visibleLegendHeight) \div 2)]

\* The y of an element that was not created.
NoY == 0 - 1

\* The measure elements drawLegendInternal appends to the group of the item
\* of data point d: the PMlegendItems group with its primaryMeasure text and
\* indicator, the SMlegendItems group with its secondaryMeasure text and
\* indicator, and the y attribute of each text.
PaintedMeasures(self, d) ==
    LET ty == d.textPosition.y
        diff == self.legendFontSizeMarginDifference
        primary == self.data.primaryType # "None"
        secondary == IF self.variant = "legend" THEN self.secondaryExists
                     ELSE self.showPrimary
        horizontal == isTopOrBottom(self.orientation)
    IN  [primaryMeasure |-> primary,
         primaryY |-> IF ~primary THEN NoY
                      ELSE IF horizontal THEN 2 * ty + (diff \div 2)
                      ELSE ty + (diff \div 2) + 20 * Px,
         primaryIndicator |-> /\ self.variant = "legend"
                              /\ self.data.primaryType \in {"Value", "Percentage", "Both"},
         secondaryMeasure |-> secondary,
         secondaryY |-> IF ~secondary THEN NoY
                        ELSE IF primary
                        THEN (IF horizontal THEN 3 * ty + diff ELSE ty + diff + 40 * Px)
                        ELSE (IF horizontal THEN 2 * ty + (diff \div 2)
                              ELSE ty + 20 * Px + (diff \div 2)),
         secondaryIndicator |-> self.variant = "legend" /\ secondary]

\* drawLegendInternal once calculateLayout has returned l for the widget s5:
\* the painting and updateLayout; nothing is painted when the layout threw.
PaintLegend(s5, l) ==
    LET s6 == l.self
        virtualizedDataPoints ==
            SubSeq(s6.data.dataPoints, s6.legendDataStartIndex + 1,
                   s6.legendDataStartIndex + l.layout.numberOfItems)
        s7 == [s6 EXCEPT
                  !.group = [transform |-> GroupTransform(s6),
                             title |-> l.layout.title,
                             items |-> virtualizedDataPoints,
                             measures |-> [j \in DOMAIN virtualizedDataPoints |->
                                              PaintedMeasures(s6, virtualizedDataPoints[j])],
                             arrows |-> l.layout.navigationArrows],
                  !.layout = l.layout,
                  \* the painted primary title, cut to the width the svg had
                  !.primaryTitle =
                      IF s6.variant = "legend" /\ s6.showPrimary
                         /\ Truthy(s6.data.primaryTitle)
                      THEN getTailoredTextOrDefault(s6.data.primaryTitle, s6.data.fontSize,
                                                    s6.svg.width - 10 * Px)
                      ELSE s6.primaryTitle]
    IN  IF l.threw
        THEN [s6 EXCEPT !.threw = TRUE, !.viewport = s5.viewport]
        ELSE updateLayout(s7)

drawLegendInternal(self, data, viewport, autoWidth) ==
    LET s1 == [self EXCEPT !.parentViewport = viewport, !.data = data, !.threw = FALSE]
        s2 == IF Len(data.dataPoints) = 0 THEN changeOrientation(s1, "None") ELSE s1
        s3 == IF s2.orientation = "None"
              THEN [s2 EXCEPT !.data = [s2.data EXCEPT !.dataPoints = <<>>]] ELSE s2
        s4 == [s3 EXCEPT
                  !.showPrimary = (data.primaryType # "None"),
                  !.secondaryExists =
                      IF self.variant = "legend"
                      THEN ScanSecondaryExists(s3.data.dataPoints, self.secondaryExists)
                      ELSE self.secondaryExists]
        s5 == [s4 EXCEPT !.viewport = calculateViewport(s4).viewport]
    IN  PaintLegend(s5, calculateLayout(s5, autoWidth))

\* public drawLegend
drawLegend(self, data, viewport) ==
    drawLegendInternal(self, setTooltipToLegendItems(InheritData(data)), viewport, TRUE)

\* A click handler whose next arrow moves one point too far.
ArrowClickSkipsOne(self, dataType) ==
    LET pos == self.legendDataStartIndex
    IN  drawLegendInternal(
            [self EXCEPT !.legendDataStartIndex =
                 IF dataType = "Increase" THEN pos + self.arrowPosWindow + 1
                 ELSE pos - self.arrowPosWindow],
            self.data, self.parentViewport, FALSE)

\* A click handler that lays out again with autoWidth = true.
ArrowClickAutoWidth(self, dataType) ==
    LET pos == self.legendDataStartIndex
    IN  drawLegendInternal(
            [self EXCEPT !.legendDataStartIndex =
                 IF dataType = "Increase" THEN pos + self.arrowPosWindow
                 ELSE pos - self.arrowPosWindow],
            self.data, self.parentViewport, TRUE)

\* The click handler drawNavigationArrows installs on an arrow.
ArrowClick(self, dataType) ==
    LET pos == self.legendDataStartIndex
    IN  drawLegendInternal(
            [self EXCEPT !.legendDataStartIndex =
                 IF dataType = "Increase" THEN pos + self.arrowPosWindow
                 ELSE pos - self.arrowPosWindow],
            self.data, self.parentViewport, FALSE)

\* new SVGLegend(element, legendPosition, interactivityService, isScrollable)
Construct(variant, legendPosition, isScrollable) ==
    LET s0 == [variant |-> variant, isScrollable |-> isScrollable, orientation |-> "Top",
               viewport |-> [height |-> 0, width |-> 0],
               parentViewport |-> [height |-> 0, width |-> 0],
               data |-> NoData, legendDataStartIndex |-> 0, arrowPosWindow |-> 1,
               lastCalculatedWidth |-> 0, visibleLegendWidth |-> 0,
               visibleLegendHeight |-> 0, legendFontSizeMarginValue |-> 0,
               legendFontSizeMarginDifference |-> 0, showPrimary |-> FALSE,
               secondaryExists |-> FALSE,
               primaryTitle |-> IF variant = "legend" THEN Text(0) ELSE Undefined,
               secondaryTitle |-> IF variant = "legend" THEN Text(0) ELSE Undefined,
               svg |-> [height |-> 0, width |-> 0],
               group |-> [transform |-> [without |-> TRUE, x |-> 0, y |-> 0],
                          title |-> NoTitle, items |-> <<>>, measures |-> <<>>,
                          arrows |-> <<>>],
               layout |-> EmptyLayout, threw |-> FALSE]
        s1 == changeOrientation(s0, legendPosition)
        v == calculateViewport(s1)
    IN  IF v.threw THEN [s1 EXCEPT !.threw = TRUE]
        ELSE updateLayout([s1 EXCEPT !.viewport = v.viewport])

(***************************************************************************)
(* The host visual: the formatting and the kind of labels it passes with   *)
(* every drawLegend (fixed for a behaviour), the number of points and the  *)
(* parent viewports it draws, and the placements it asks for.              *)
(***************************************************************************)
MaxPoints == 4

MaxOrientationChanges == 2

ShortLabel == 3
LongLabel == 30

\* The length of the primary measure of a point of a host with long texts;
\* its secondary measure is two characters longer.
LongMeasure == 18

\* The lengths of the point lists drawn: none, a short one, the longest.
DrawnLengths == {0, 2, MaxPoints}

Variants == {"chartutils", "legend"}

ModelPositions == {"Top", "TopCenter", "LeftCenter", "None"}

HostStyles ==
    { [fontSize |-> 8, primaryType |-> "None", title |-> Undefined, measures |-> "none",
       primaryTitle |-> Undefined, secondaryTitle |-> Undefined, labels |-> "mixed"],
      [fontSize |-> 8, primaryType |-> "None", title |-> Text(5), measures |-> "both",
       primaryTitle |-> Undefined, secondaryTitle |-> Undefined, labels |-> "short"],
      [fontSize |-> 17, primaryType |-> "None", title |-> Text(40), measures |-> "none",
       primaryTitle |-> Undefined, secondaryTitle |-> Undefined, labels |-> "long"],
      [fontSize |-> 0, primaryType |-> "undefined", title |-> Undefined, measures |-> "none",
       primaryTitle |-> Undefined, secondaryTitle |-> Undefined, labels |-> "short"],
      [fontSize |-> 8, primaryType |-> "Value", title |-> Text(5), measures |-> "primary",
       primaryTitle |-> Text(7), secondaryTitle |-> Undefined, labels |-> "mixed"],
      [fontSize |-> 8, primaryType |-> "Value", title |-> Text(5), measures |-> "both",
       primaryTitle |-> Text(7), secondaryTitle |-> Text(9), labels |-> "long"],
      [fontSize |-> 8, primaryType |-> "Value", title |-> Undefined,
       measures |-> "firstSecondary",
       primaryTitle |-> Undefined, secondaryTitle |-> Undefined, labels |-> "short"] }

Viewports == { [width |-> 0, height |-> 0],
               [width |-> 70 * Px, height |-> 60 * Px],
               [width |-> 400 * Px, height |-> 300 * Px] }

HostPoint(style, i) ==
    [obj |-> "caller",
     label |-> Text(IF style.labels = "short" \/ (style.labels = "mixed" /\ i <= 2)
                    THEN ShortLabel ELSE LongLabel),
     measure |-> IF style.measures = "none" THEN Undefined
                 ELSE Text(IF style.labels = "long" THEN LongMeasure ELSE 4),
     secondaryMeasure |->
         IF style.measures = "both" \/ (style.measures = "firstSecondary" /\ i = 1)
         THEN Text(IF style.labels = "long" THEN LongMeasure + 2 ELSE 5) ELSE Undefined,
     tooltip |-> Undefined, glyphPosition |-> NoPosition, textPosition |-> NoPosition,
     markerShape |-> "circle"]

HostData(style, length) ==
    [obj |-> "caller",
     dataPoints |-> [i \in 1..length |-> HostPoint(style, i)],
     title |-> style.title, fontSize |-> style.fontSize,
     primaryType |-> style.primaryType, primaryTitle |-> style.primaryTitle,
     secondaryTitle |-> style.secondaryTitle]

(***************************************************************************)
(* State: the widget (this), the host's style, the caller's data object as *)
(* it is now (callerData) and as it was passed to the last drawLegend      *)
(* (passed), the last operation, the start index it found, the number of   *)
(* changeOrientation calls so far, and how far a round trip of arrow       *)
(* clicks from the first page has come: "out" after a click on the next    *)
(* arrow of the first page, "back" after a click on the previous arrow     *)
(* right after it.  cameFrom is the start index of the page, laid out by   *)
(* a completed pass, from which a click on the next arrow reached the last *)
(* page the legend is on, kept over redraws of the same data in the same   *)
(* viewport, and NoPage else.                                              *)
(***************************************************************************)
VARIABLES this, host, callerData, passed, lastOp, prevStart, changes, roundTrip, cameFrom

vars == <<this, host, callerData, passed, lastOp, prevStart, changes, roundTrip, cameFrom>>

NoPage == 0 - 1

Init ==
    \E variant \in Variants, isScrollable \in BOOLEAN,
       legendPosition \in ModelPositions \cup {"Unset"}, style \in HostStyles :
        /\ this = Construct(variant, legendPosition, isScrollable)
        /\ host = style
        /\ callerData = NoData
        /\ passed = NoData
        /\ lastOp = "new"
        /\ prevStart = 0
        /\ changes = 0
        /\ roundTrip = "none"
        /\ cameFrom = NoPage

\* The last operation was a layout pass: a drawLegend or an arrow click.
AfterPass == lastOp \in {"draw", "inc", "dec"}

\* The last layout pass ran to its end.
PassCompleted == AfterPass /\ ~this.threw

\* The types of the arrows of a layout.
ArrowTypes(arrows) == {arrows[i].dataType : i \in DOMAIN arrows}

\* A widget whose constructor threw does not exist.
Alive == ~(lastOp = "new" /\ this.threw)

DrawLegend(length, viewport) ==
    LET d == HostData(host, length)
    IN  /\ Alive
        /\ this' = drawLegend(this, d, viewport)
        /\ callerData' = CallerView(d, this'.data)
        /\ passed' = d
        /\ lastOp' = "draw"
        /\ prevStart' = this.legendDataStartIndex
        /\ roundTrip' = "none"
        /\ cameFrom' = IF /\ length = Len(passed.dataPoints)
                          /\ viewport = this.parentViewport
                       THEN cameFrom ELSE NoPage
        /\ UNCHANGED <<host, changes>>

ClickArrow(i) ==
    LET dataType == this.group.arrows[i].dataType
    IN  /\ Alive
        /\ this' = ArrowClick(this, dataType)
        /\ callerData' = CallerView(callerData, this'.data)
        /\ lastOp' = IF dataType = "Increase" THEN "inc" ELSE "dec"
        /\ prevStart' = this.legendDataStartIndex
        /\ roundTrip' = IF dataType = "Increase" /\ this.legendDataStartIndex = 0
                        THEN "out"
                        ELSE IF dataType = "Decrease" /\ roundTrip = "out"
                        THEN "back" ELSE "none"
        /\ cameFrom' = IF /\ dataType = "Increase"
                          /\ PassCompleted
                          /\ ~this'.threw
                          /\ Len(this'.data.dataPoints) > 0
                          /\ "Increase" \notin ArrowTypes(this'.layout.navigationArrows)
                       THEN this.legendDataStartIndex ELSE NoPage
        /\ UNCHANGED <<host, passed, changes>>

ChangeOrientation(orientation) ==
    /\ Alive
    /\ changes < MaxOrientationChanges
    /\ this' = changeOrientation(this, orientation)
    /\ lastOp' = "orient"
    /\ prevStart' = this.legendDataStartIndex
    /\ changes' = changes + 1
    /\ roundTrip' = "none"
    /\ cameFrom' = NoPage
    /\ UNCHANGED <<host, callerData, passed>>

Next ==
    \/ \E length \in DrawnLengths, viewport \in Viewports : DrawLegend(length, viewport)
    \/ \E i \in DOMAIN this.group.arrows : ClickArrow(i)
    \/ \E orientation \in ModelPositions \cup {"Unset"} : ChangeOrientation(orientation)

Spec == Init /\ [][Next]_vars

(***************************************************************************)
(* Properties.                                                             *)
(***************************************************************************)
\* The data points from startIndex to the end, dataPoints.slice(startIndex).
PaginationWindow ==
    LET n == Len(this.data.dataPoints)
        from == IF this.legendDataStartIndex < 0
                THEN Max(n + this.legendDataStartIndex, 0)
                ELSE this.legendDataStartIndex
    IN  IF from >= n THEN <<>> ELSE SubSeq(this.data.dataPoints, from + 1, n)

\* What isVisible() returns.
isVisible == this.orientation # "None"

\* What getMargins() returns.
getMargins == this.viewport

\* C1: a click on the next arrow of the first page followed by a click on
\* the previous arrow, the data and the parent viewport unchanged, leaves
\* startIndex at 0 again.
PaginationRoundTrip == roundTrip = "back" => this.legendDataStartIndex = 0

\* C2: after every layout pass over a data set of length L >= 0 startIndex
\* lies in [0, max(0, L - 1)], also when the data set has shrunk to empty.
ClampInvariant ==
    AfterPass =>
        LET L == IF lastOp = "draw" THEN Len(passed.dataPoints)
                 ELSE Len(this.data.dataPoints)
        IN  /\ this.legendDataStartIndex >= 0
            /\ this.legendDataStartIndex <= Max(0, L - 1)

\* C3: the numberOfItems of every layout pass is at most the number of data
\* points in the current pagination window, and it is 0 when the data set
\* is empty or the parent viewport is zero-sized.
MonotonicFit ==
    PassCompleted =>
        /\ this.layout.numberOfItems >= 0
        /\ this.layout.numberOfItems <= Len(PaginationWindow)
        /\ (\/ Len(this.data.dataPoints) = 0
            \/ (lastOp = "draw" /\ Len(passed.dataPoints) = 0)
            \/ (this.parentViewport.width = 0 /\ this.parentViewport.height = 0))
           => this.layout.numberOfItems = 0

\* A pass over data in a viewport with room that shows some of the window's
\* points and not all of them.
MonotonicFitWitness ==
    /\ PassCompleted
    /\ this.layout.numberOfItems > 0
    /\ this.layout.numberOfItems < Len(PaginationWindow)

\* C4: after drawLegend with zero data points the orientation is None, the
\* legend is not visible, its footprint is {0, 0} and the layout has no
\* items, no title and no navigation arrows.
EmptyData ==
    (lastOp = "draw" /\ Len(passed.dataPoints) = 0) =>
        /\ this.orientation = "None"
        /\ ~isVisible
        /\ getMargins = [height |-> 0, width |-> 0]
        /\ this.layout.numberOfItems = 0
        /\ ~this.layout.title.present
        /\ this.layout.navigationArrows = <<>>
        /\ this.group.items = <<>>

\* An empty drawLegend on a legend that stood at the left with a title.
EmptyDataWitness ==
    /\ lastOp = "draw"
    /\ Len(passed.dataPoints) = 0
    /\ Truthy(passed.title)
    /\ this.lastCalculatedWidth > 0
    /\ this.orientation = "None"

\* C5: after drawLegend and after any arrow clicks that follow, the data
\* object of the caller and each of its data points hold what they held
\* when they were passed: labels, measures, title and the point list.
InputNotMutated == passed.obj # "none" => callerData = passed

\* An arrow click after which the widget holds a cut label and a position
\* for a point whose label the caller passed in full.
InputNotMutatedWitness ==
    /\ lastOp = "inc"
    /\ ~this.threw
    /\ \E i \in DOMAIN this.data.dataPoints :
           /\ this.data.dataPoints[i].label.ell
           /\ this.data.dataPoints[i].glyphPosition # NoPosition
           /\ ~callerData.dataPoints[i].label.ell

\* C6: after a drawLegend and any arrow clicks that follow, the tooltip of
\* every painted data point is the label passed to that drawLegend, uncut.
TooltipSnapshot ==
    PassCompleted =>
        \A j \in DOMAIN this.group.items :
            this.group.items[j].tooltip
                = passed.dataPoints[this.legendDataStartIndex + j].label

\* A painted point on a later page whose label was cut.
TooltipSnapshotWitness ==
    /\ lastOp = "inc"
    /\ ~this.threw
    /\ \E j \in DOMAIN this.group.items :
           /\ this.group.items[j].label.ell
           /\ this.group.items[j].tooltip.n = LongLabel

\* The per-item budget of the pass that led to the next state.
PassBudget ==
    IF isTopOrBottom(this'.orientation)
    THEN HorizontalMaxTextLength(this', this'.data.dataPoints, this'.layout.title)
    ELSE VerticalMaxHorizontalSpace(this', this'.data.dataPoints, lastOp' = "draw")

\* The label point i had when the pass that led to the next state began.
LabelBeforePass(i) ==
    IF lastOp' = "draw" THEN passed'.dataPoints[i].label ELSE this.data.dataPoints[i].label

\* C7: in every layout pass, a shown item whose label is wider than the
\* per-item budget of the pass has its label replaced by the form cut with
\* an ellipsis, of width <= budget, and a label within the budget is left
\* as it was.
TruncationSafetyStep ==
    (lastOp' \in {"draw", "inc", "dec"} /\ ~this'.threw) =>
        \A j \in 1..this'.layout.numberOfItems :
            LET i == this'.legendDataStartIndex + j
                before == LabelBeforePass(i)
                after == this'.data.dataPoints[i].label
                fs == this'.data.fontSize
            IN  IF measureSvgTextWidth(before, fs) > PassBudget
                THEN after.ell /\ measureSvgTextWidth(after, fs) <= PassBudget
                ELSE after = before

TruncationSafety == [][TruncationSafetyStep]_vars

\* C8: of two consecutive drawLegend calls with the same data and the same
\* parent viewport, the second leaves the layout, the painted points,
\* startIndex, the paging window and the cached width as the first left them.
DeterminismStep ==
    (/\ lastOp = "draw" /\ lastOp' = "draw"
     /\ passed' = passed
     /\ this'.parentViewport = this.parentViewport
     /\ ~this.threw /\ ~this'.threw) =>
        /\ this'.layout = this.layout
        /\ this'.group.items = this.group.items
        /\ this'.legendDataStartIndex = this.legendDataStartIndex
        /\ this'.arrowPosWindow = this.arrowPosWindow
        /\ this'.lastCalculatedWidth = this.lastCalculatedWidth

Determinism == [][DeterminismStep]_vars

\* C9: after every layout pass of a scrollable legend over non-empty data
\* the arrows hold a previous arrow iff startIndex > 0 and a next arrow iff
\* numberOfItems is smaller than the number of points from startIndex on,
\* never two of a type; a legend that is not scrollable has no arrows.
ArrowVisibility ==
    PassCompleted =>
        LET arrows == this.layout.navigationArrows
        IN  IF ~this.isScrollable THEN arrows = <<>>
            ELSE Len(this.data.dataPoints) > 0 =>
                    /\ ("Decrease" \in ArrowTypes(arrows)) = (this.legendDataStartIndex > 0)
                    /\ ("Increase" \in ArrowTypes(arrows))
                           = (this.layout.numberOfItems < Len(PaginationWindow))
                    /\ Len(arrows) = Cardinality(ArrowTypes(arrows))

\* A middle page: both arrows.
ArrowVisibilityWitness ==
    /\ PassCompleted
    /\ this.isScrollable
    /\ this.legendDataStartIndex > 0
    /\ this.layout.numberOfItems > 0
    /\ Len(this.layout.navigationArrows) = 2

\* C10: drawLegend on non-empty data whose points have no primary measure,
\* or whose primaryType is undefined, ends without a thrown error in a
\* horizontal and in a vertical legend.
MissingMeasuresNoError ==
    (/\ lastOp = "draw"
     /\ Len(passed.dataPoints) > 0
     /\ \/ passed.primaryType = "undefined"
        \/ \A i \in DOMAIN passed.dataPoints : ~Truthy(passed.dataPoints[i].measure))
        => ~this.threw

\* C11: new SVGLegend(...) ends without a thrown error for every placement:
\* top, bottom, left, right, their centered forms, None, and unset.
ConstructionNeverThrows == lastOp = "new" => ~this.threw

\* The widest natural width the vertical loop of the last drawLegend met:
\* the title's width and, for every point up to the first that did not
\* fit, the widest of its label and shown measures as passed, plus 15.
AutoWidthUsed ==
    LET fs == this.data.fontSize
        start == this.legendDataStartIndex
        remaining == Len(passed.dataPoints) - start
        met == IF this.layout.numberOfItems < remaining
               THEN this.layout.numberOfItems + 1 ELSE remaining
        usesSecondary == IF this.variant = "legend" THEN this.secondaryExists
                         ELSE this.showPrimary
        natural(dp) ==
            Max(measureSvgTextWidth(dp.label, fs),
                Max(IF this.showPrimary THEN measureSvgTextWidth(dp.measure, fs) ELSE 0,
                    IF usesSecondary THEN measureSvgTextWidth(dp.secondaryMeasure, fs)
                    ELSE 0)) + 15 * Px
        widths == {natural(passed.dataPoints[start + j]) : j \in 1..met}
                  \cup {IF this.layout.title.present THEN this.layout.title.width ELSE 0}
    IN  CHOOSE w \in widths : \A v \in widths : v <= w

\* The last operation was a drawLegend of points on a left or right legend.
VerticalDraw ==
    /\ lastOp = "draw"
    /\ ~this.threw
    /\ isLeftOrRight(this.orientation)
    /\ Len(passed.dataPoints) > 0

\* C12: after drawLegend on a left or right legend with points,
\* lastCalculatedWidth, which is also the width of the footprint, is at most
\* 0.3 of the parent viewport's width rounded up to a whole pixel, and it is
\* the used width plus the fixed shifts and the edge margin, rounded up,
\* when the used width is below the budget.
VerticalAutoWidth ==
    VerticalDraw =>
        LET W == this.parentViewport.width
            fixed == 2 * VerticalIconShift(this, this.data.dataPoints)
                     + LegendEdgeMariginWidth
            content == AutoWidthUsed + fixed
            resolved == this.lastCalculatedWidth
        IN  /\ resolved % Px = 0
            /\ 10 * (resolved - Px) < 3 * W
            /\ getMargins.width = resolved
            /\ 10 * content < 3 * W =>
                   /\ resolved >= content
                   /\ resolved - Px < content

\* A vertical draw whose content is narrower than the budget and not a
\* whole number of pixels wide, and another that fills the budget.
VerticalAutoWidthWitness ==
    /\ VerticalDraw
    /\ this.lastCalculatedWidth > 0
    /\ 10 * this.lastCalculatedWidth < 3 * this.parentViewport.width
    /\ AutoWidthUsed % Px # 0

\* C13: an arrow click leaves lastCalculatedWidth as it was and, on a left
\* or right legend, makes it the width of the footprint; changeOrientation
\* leaves it too, so that only drawLegend changes the width of the legend.
StableWidthStep ==
    /\ lastOp' \in {"inc", "dec", "orient"} =>
           this'.lastCalculatedWidth = this.lastCalculatedWidth
    /\ (lastOp' \in {"inc", "dec"} /\ isLeftOrRight(this'.orientation)) =>
           this'.viewport.width = this.lastCalculatedWidth

StableWidth == [][StableWidthStep]_vars

\* A click on the next arrow of a left legend whose width a drawLegend
\* resolved, showing the next page at that width.
StableWidthWitness ==
    /\ lastOp = "inc"
    /\ isLeftOrRight(this.orientation)
    /\ this.legendDataStartIndex > 0
    /\ this.layout.numberOfItems > 0
    /\ this.lastCalculatedWidth > 0
    /\ getMargins.width = this.lastCalculatedWidth

\* C14: a drawLegend whose data set is longer than startIndex leaves
\* startIndex as it was, and changeOrientation leaves it always: it changes
\* only by an arrow click or by the clamp of a data set that is too short.
PaginationPersistsStep ==
    /\ (lastOp' = "draw" /\ Len(passed'.dataPoints) > this.legendDataStartIndex) =>
           this'.legendDataStartIndex = this.legendDataStartIndex
    /\ lastOp' = "orient" =>
           this'.legendDataStartIndex = this.legendDataStartIndex

PaginationPersists == [][PaginationPersistsStep]_vars

\* C15: in a horizontal legend that shows the primary measure and whose
\* data points have no secondary measure, every painted item has its
\* primary measure text at y = 2 * the y of its label + marginDiff / 2, and
\* no group, text or indicator of a secondary measure.
PrimaryOnly ==
    (/\ PassCompleted
     /\ isTopOrBottom(this.orientation)
     /\ this.data.primaryType # "None"
     /\ \A i \in DOMAIN passed.dataPoints :
            ~Truthy(passed.dataPoints[i].secondaryMeasure)) =>
        \A j \in DOMAIN this.group.items :
            LET painted == this.group.measures[j]
            IN  /\ painted.primaryMeasure
                /\ painted.primaryY
                       = 2 * this.group.items[j].textPosition.y
                         + (this.legendFontSizeMarginDifference \div 2)
                /\ ~painted.secondaryMeasure
                /\ ~painted.secondaryIndicator

\* Where a click that moves startIndex by distance lands: the pass that
\* follows clamps the sum to the data, unless the data is empty by then.
LandsAt(distance) ==
    LET raw == IF lastOp' = "inc" THEN this.legendDataStartIndex + distance
               ELSE this.legendDataStartIndex - distance
        length == Len(this'.data.dataPoints)
    IN  this'.legendDataStartIndex
            = IF length = 0 THEN raw
              ELSE IF raw >= length THEN Max(length - 1, 0)
              ELSE IF raw < 0 THEN 0 ELSE raw

\* C16: at every arrow click the distance added to or subtracted from
\* startIndex is the numberOfItems of the last completed layout pass, the
\* number of items visible when the click happens.
JumpDistanceStep ==
    lastOp' \in {"inc", "dec"} => LandsAt(this.layout.numberOfItems)

JumpDistance == [][JumpDistanceStep]_vars

\* C16 as amended: the distance is that numberOfItems at every click on
\* the next arrow, and at every click on the previous arrow of a page that
\* also shows the next arrow.
JumpDistanceNotLastPageStep ==
    (/\ lastOp' \in {"inc", "dec"}
     /\ "Increase" \in ArrowTypes(this.group.arrows)) =>
        LandsAt(this.layout.numberOfItems)

JumpDistanceNotLastPage == [][JumpDistanceNotLastPageStep]_vars

\* A click on the next arrow of a page that showed two items has moved
\* startIndex on by two, to a point before the last.
JumpDistanceWitness ==
    /\ lastOp = "inc"
    /\ ~this.threw
    /\ this.legendDataStartIndex = prevStart + 2
    /\ this.legendDataStartIndex < Len(this.data.dataPoints) - 1

\* C17: a completed layout pass of a scrollable legend that shows all the
\* points that remain from startIndex on, and so no next arrow, leaves
\* arrowPosWindow as it was before the pass; every other completed pass
\* makes it the pass's numberOfItems.
WindowRollbackStep ==
    (/\ lastOp' \in {"draw", "inc", "dec"}
     /\ ~this'.threw
     /\ this.isScrollable) =>
        IF this'.layout.numberOfItems = Len(PaginationWindow')
        THEN /\ "Increase" \notin ArrowTypes(this'.layout.navigationArrows)
             /\ this'.arrowPosWindow = this.arrowPosWindow
        ELSE this'.arrowPosWindow = this'.layout.numberOfItems

WindowRollback == [][WindowRollbackStep]_vars

\* A last page reached by the next arrow: it shows fewer items than the
\* window it was reached with, and the window is still that one.
WindowRollbackWitness ==
    /\ lastOp = "inc"
    /\ ~this.threw
    /\ this.isScrollable
    /\ this.layout.numberOfItems > 0
    /\ this.layout.numberOfItems = Len(PaginationWindow)
    /\ this.arrowPosWindow > this.layout.numberOfItems

\* C18: a click on the next arrow of a completed pass that started at s
\* and painted n items makes startIndex s + n, unclamped: the next page
\* begins with the point after the last one painted.
ForwardContiguousStep ==
    (PassCompleted /\ lastOp' = "inc") =>
        /\ Len(this.group.items) = this.layout.numberOfItems
        /\ this'.legendDataStartIndex
               = this.legendDataStartIndex + Len(this.group.items)

ForwardContiguous == [][ForwardContiguousStep]_vars

\* A third page reached by two clicks on the next arrow, with an item on it.
ForwardContiguousWitness ==
    /\ lastOp = "inc"
    /\ ~this.threw
    /\ prevStart > 0
    /\ this.legendDataStartIndex > prevStart
    /\ Len(this.group.items) > 0

\* C19: a click on the next arrow of a completed pass makes startIndex
\* larger, also when the pass had room for no item.
PagingProgressStep ==
    (PassCompleted /\ lastOp' = "inc") =>
        this'.legendDataStartIndex > this.legendDataStartIndex

PagingProgress == [][PagingProgressStep]_vars

\* C20: when the last page was reached by a click on the next arrow from a
\* page that started at s, a click on the previous arrow, after any number
\* of drawLegend calls with the same data and viewport, makes startIndex s.
BackFromLastPageStep ==
    (lastOp' = "dec" /\ cameFrom # NoPage) =>
        this'.legendDataStartIndex = cameFrom

BackFromLastPage == [][BackFromLastPageStep]_vars

\* C21: a drawLegend with points that follows a drawLegend with none, no
\* changeOrientation in between, leaves the legend visible and lays out the
\* points it was passed.
EmptyDrawRecoversStep ==
    (/\ lastOp = "draw" /\ Len(passed.dataPoints) = 0
     /\ lastOp' = "draw" /\ Len(passed'.dataPoints) > 0) =>
        /\ isVisible'
        /\ Len(this'.data.dataPoints) = Len(passed'.dataPoints)

EmptyDrawRecovers == [][EmptyDrawRecoversStep]_vars

\* The per-item budget of the pass of an arrow click that led to this state.
ClickBudget ==
    IF isTopOrBottom(this.orientation)
    THEN HorizontalMaxTextLength(this, this.data.dataPoints, this.layout.title)
    ELSE VerticalMaxHorizontalSpace(this, this.data.dataPoints, FALSE)

\* C22: after an arrow click, in a behaviour without changeOrientation,
\* every painted label is the label passed to the last drawLegend cut to the
\* budget of the click's pass: in full when it fits that budget.
NoStaleTruncation ==
    (PassCompleted /\ lastOp \in {"inc", "dec"} /\ changes = 0) =>
        \A j \in DOMAIN this.group.items :
            this.group.items[j].label
                = getTailoredTextOrDefault(
                      passed.dataPoints[this.legendDataStartIndex + j].label,
                      this.data.fontSize, ClickBudget)

\* Data point i as it was when the pass that led to the next state began.
PointBeforePass(i) ==
    IF lastOp' = "draw" THEN passed'.dataPoints[i] ELSE this.data.dataPoints[i]

\* Every shown item of the pass that led to the next state whose natural
\* width reaches the budget of the pass has its label, its primary measure
\* and its secondary measure, as far as they are shown, each cut on its own
\* against the ceiling given for it.
CutAgainst(labelCeiling, primaryCeiling, secondaryCeiling) ==
    (lastOp' \in {"draw", "inc", "dec"} /\ ~this'.threw) =>
        \A j \in 1..this'.layout.numberOfItems :
            LET i == this'.legendDataStartIndex + j
                before == PointBeforePass(i)
                after == this'.data.dataPoints[i]
                fs == this'.data.fontSize
                width == WidestOf(
                             measureSvgTextWidth(before.label, fs),
                             IF this'.showPrimary
                             THEN measureSvgTextWidth(before.measure, fs) ELSE 0,
                             IF UsesSecondary(this')
                             THEN measureSvgTextWidth(before.secondaryMeasure, fs) ELSE 0)
                         + 15 * Px
                truncated == IF isTopOrBottom(this'.orientation)
                             THEN ~(width < PassBudget) ELSE width > PassBudget
            IN  truncated =>
                    /\ after.label = getTailoredTextOrDefault(before.label, fs, labelCeiling)
                    /\ this'.showPrimary =>
                           after.measure
                               = getTailoredTextOrDefault(before.measure, fs, primaryCeiling)
                    /\ UsesSecondary(this') =>
                           after.secondaryMeasure
                               = getTailoredTextOrDefault(before.secondaryMeasure, fs,
                                                          secondaryCeiling)

\* C23: within one layout pass, the label and each shown measure of a
\* truncated item are cut independently against one and the same ceiling,
\* the budget of the pass, in horizontal and in vertical mode.
SingleCeilingStep == CutAgainst(PassBudget, PassBudget, PassBudget)

CeilingPerTextStep ==
    IF isTopOrBottom(this'.orientation)
    THEN CutAgainst(PassBudget, PassBudget,
                    IF this'.variant = "legend" THEN PassBudget
                    ELSE HorizontalPercentTextLength(this', this'.data.dataPoints,
                                                     this'.layout.title))
    ELSE CutAgainst(PassBudget, PassBudget - 18 * Px, PassBudget - 18 * Px)

SecondaryDetection ==
    (lastOp = "draw" /\ ~this.threw) =>
        \A j \in DOMAIN this.group.items :
            this.group.measures[j].secondaryMeasure
                = (\E i \in DOMAIN passed.dataPoints :
                       Truthy(passed.dataPoints[i].secondaryMeasure))

\* C25: in every completed layout pass over data the max-width values the
\* layout derives from the parent viewport are >= 0: the max measure length
\* of a horizontal title, the title width that results, and the max
\* horizontal space available of a vertical pass.
FloorAtZero ==
    (PassCompleted /\ Len(this.data.dataPoints) > 0) =>
        /\ (this.layout.title.present /\ isTopOrBottom(this.orientation)) =>
               TitleMaxMeasureLength(this) >= 0
        /\ this.layout.title.present => this.layout.title.width >= 0
        /\ isLeftOrRight(this.orientation) =>
               VerticalMaxHorizontalSpace(this, this.data.dataPoints, lastOp = "draw") >= 0

\* The sum of the first k numbers of a sequence.
RECURSIVE SumFirst(_, _)
SumFirst(s, k) == IF k = 0 THEN 0 ELSE SumFirst(s, k - 1) + s[k]

\* The width each point of the window consumes in the horizontal pass that
\* led to the next state: the icon padding and its natural width, or the
\* budget when its natural width reaches the budget.
ConsumedWidths ==
    [j \in 1..Len(PaginationWindow') |->
        LET before == PointBeforePass(this'.legendDataStartIndex + j)
            fs == this'.data.fontSize
            width == WidestOf(
                         measureSvgTextWidth(before.label, fs),
                         IF this'.showPrimary
                         THEN measureSvgTextWidth(before.measure, fs) ELSE 0,
                         IF UsesSecondary(this')
                         THEN measureSvgTextWidth(before.secondaryMeasure, fs) ELSE 0)
                     + 15 * Px
        IN  HorizontalItemPadding(this', this'.data.dataPoints)
            + (IF width < PassBudget THEN width ELSE PassBudget)]

\* The occupied width after the first k items of that pass: the title, the
\* offset of the previous arrow, and what the items consume.
RunningWidth(k) ==
    HorizontalOccupiedBefore(this', this'.layout.title) + SumFirst(ConsumedWidths, k)

\* A horizontal pass over data has led to the next state.
HorizontalPassStep ==
    /\ lastOp' \in {"draw", "inc", "dec"}
    /\ ~this'.threw
    /\ isTopOrBottom(this'.orientation)
    /\ Len(this'.data.dataPoints) > 0

\* The stop rule: numberOfItems is the index of the first item of the
\* window at which the running occupied width exceeds the parent viewport's
\* width, or the length of the window if there is none.
StopsAtFirstOverflow ==
    LET n == this'.layout.numberOfItems
        W == this'.parentViewport.width
    IN  /\ n <= Len(PaginationWindow')
        /\ \A k \in 1..n : RunningWidth(k) <= W
        /\ n < Len(PaginationWindow') => RunningWidth(n + 1) > W

\* C26: in a horizontal pass numberOfItems is set by the stop rule, and so
\* the title, the arrow reservation and the items shown never take more
\* than the parent's width.
HorizontalStopRuleStep ==
    HorizontalPassStep =>
        /\ StopsAtFirstOverflow
        /\ RunningWidth(this'.layout.numberOfItems) <= this'.parentViewport.width

HorizontalStopRule == [][HorizontalStopRuleStep]_vars

\* C26 as amended: numberOfItems is set by the stop rule, and the title,
\* the arrow reservation and the items shown take no more than the parent's
\* width whenever an item is shown or the title and the arrow reservation
\* fit the parent by themselves.
StopRuleWhenRoomStep ==
    HorizontalPassStep =>
        /\ StopsAtFirstOverflow
        /\ (this'.layout.numberOfItems > 0
             \/ RunningWidth(0) <= this'.parentViewport.width) =>
               RunningWidth(this'.layout.numberOfItems) <= this'.parentViewport.width

StopRuleWhenRoom == [][StopRuleWhenRoomStep]_vars

\* A page after the first, with a title, that shows two items of a window
\* of more: the previous arrow's offset and the title were counted, and the
\* third item overflowed.
StopRuleWhenRoomWitness ==
    /\ PassCompleted
    /\ isTopOrBottom(this.orientation)
    /\ this.legendDataStartIndex > 0
    /\ this.layout.title.present
    /\ this.layout.numberOfItems = 2
    /\ Len(PaginationWindow) > 2

\* The base height of a horizontal legend: 24 pixels plus the font-size delta.
BaseHeight(fontSize) ==
    TopLegendHeight
    + (fromPointToPixel(IF fontSize # 0 THEN fontSize ELSE DefaultFontSizeInPt)
       - DefaultFontSizeInPt * Px)

\* C27: after drawLegend on a top or bottom legend the height getMargins()
\* returns exceeds the base height only when primary or secondary measure
\* rows are shown, is exactly the base height when primaryType is None and
\* no point has a secondary measure, and does not grow when the same draw
\* is repeated.
FootprintHeightStep ==
    (lastOp' = "draw" /\ ~this'.threw /\ isTopOrBottom(this'.orientation)) =>
        LET height == getMargins'.height
            base == BaseHeight(passed'.fontSize)
            rows == \/ passed'.primaryType # "None"
                    \/ \E i \in DOMAIN passed'.dataPoints :
                           Truthy(passed'.dataPoints[i].secondaryMeasure)
        IN  /\ height > base => rows
            /\ ~rows => height = base
            /\ (/\ lastOp = "draw" /\ ~this.threw
                /\ passed' = passed
                /\ this'.parentViewport = this.parentViewport
                /\ this'.orientation = this.orientation) =>
                   height <= getMargins.height

FootprintHeight == [][FootprintHeightStep]_vars

\* The height one item of a vertical legend takes: its line and the rows of
\* the measures shown under it.
VerticalItemHeight(self) ==
    LET diff == self.legendFontSizeMarginDifference
        row == 20 * Px + (diff \div 2)
    IN  20 * Px + (IF diff > 0 THEN diff ELSE 0)
        + (IF self.variant = "legend"
           THEN (IF self.showPrimary THEN row ELSE 0)
                + (IF self.secondaryExists THEN row ELSE 0)
           ELSE (IF self.showPrimary THEN row * 2 ELSE 0))

\* The height the title, the arrow reservation and the items shown take in
\* the vertical pass that led to the next state: what the loop has counted,
\* less the item that did not fit.
VerticalExtent ==
    this'.visibleLegendHeight + 20 * Px
    + (IF this'.legendFontSizeMarginDifference > 0
       THEN this'.legendFontSizeMarginDifference ELSE 0)
    - (IF this'.layout.numberOfItems < Len(PaginationWindow')
       THEN VerticalItemHeight(this') ELSE 0)

\* C28: after a pass of a centered legend the group is translated by
\* max(0, (parent dimension - occupied dimension) / 2), along x for a top
\* or bottom legend and along y for a left or right one, the occupied
\* dimension being that of the title, the arrow reservation and the items
\* shown; the offset is never negative.
CenteredOffsetStep ==
    (/\ lastOp' \in {"draw", "inc", "dec"}
     /\ ~this'.threw
     /\ isCentered(this'.orientation)
     /\ Len(this'.data.dataPoints) > 0) =>
        LET transform == this'.group.transform
        IN  /\ ~transform.without
            /\ transform.x >= 0 /\ transform.y >= 0
            /\ IF isTopOrBottom(this'.orientation)
               THEN /\ transform.y = 0
                    /\ transform.x
                           = Max(0, (this'.parentViewport.width
                                     - RunningWidth(this'.layout.numberOfItems)) \div 2)
               ELSE /\ transform.x = 0
                    /\ transform.y
                           = Max(0, (this'.parentViewport.height - VerticalExtent) \div 2)

CenteredOffset == [][CenteredOffsetStep]_vars

\* The positions the pass that led to the next state gives the j-th point
\* of its window, from what the pass has counted before that point: the
\* running width in a horizontal pass, and in a vertical pass the height
\* counted at the end less the items from the j-th on.
PositionsOfPass(j) ==
    LET self == this'
        dp == self.data.dataPoints[self.legendDataStartIndex + j]
        first == self.data.dataPoints[self.legendDataStartIndex + 1]
        diff == self.legendFontSizeMarginDifference
        fontFactor == IF diff > 0 THEN diff ELSE 0
    IN  IF isTopOrBottom(self.orientation)
        THEN LET fixedTextShift == (getMarkerShapeWidth(first.markerShape) \div 2)
                                   + TextAndIconPadding + fontFactor + 4 * Px
             IN  [glyphPosition |->
                      [x |-> RunningWidth(j - 1) + (getMarkerShapeWidth(dp.markerShape) \div 2)
                             + (IF self.variant = "legend"
                                THEN diff \div getLegendIconFactor(dp.markerShape) ELSE 0),
                       y |-> 11 * Px + fontFactor],
                  textPosition |-> [x |-> RunningWidth(j - 1) + fixedTextShift,
                                    y |-> fixedTextShift]]
        ELSE LET visited == IF self.layout.numberOfItems < Len(PaginationWindow')
                            THEN self.layout.numberOfItems + 1
                            ELSE self.layout.numberOfItems
                 before == self.visibleLegendHeight + 20 * Px + fontFactor
                           - (visited - j + 1) * VerticalItemHeight(self)
             IN  [glyphPosition |-> [x |-> VerticalIconShift(self, self.data.dataPoints),
                                     y |-> before + fontFactor],
                  textPosition |-> [x |-> 2 * VerticalIconShift(self, self.data.dataPoints),
                                    y |-> before + 4 * Px + ((fontFactor * 13) \div 10)]]

\* C29: the points painted after a layout pass are exactly
\* dataPoints[startIndex .. startIndex + numberOfItems - 1], with
\* startIndex + numberOfItems <= length, and each carries the glyphPosition
\* and the textPosition that pass assigned: none an older position or none.
PaintedInPassStep ==
    (lastOp' \in {"draw", "inc", "dec"} /\ ~this'.threw) =>
        LET start == this'.legendDataStartIndex
            n == this'.layout.numberOfItems
            items == this'.group.items
        IN  /\ start + n <= Len(this'.data.dataPoints)
            /\ Len(items) = n
            /\ \A j \in 1..n :
                   /\ start + j >= 1
                   /\ items[j] = this'.data.dataPoints[start + j]
                   /\ items[j].glyphPosition # NoPosition
                   /\ items[j].textPosition # NoPosition
                   /\ items[j].glyphPosition = PositionsOfPass(j).glyphPosition
                   /\ items[j].textPosition = PositionsOfPass(j).textPosition

PaintedInPass == [][PaintedInPassStep]_vars

\* C30: among the items painted in one pass the glyph and text positions
\* strictly increase with the index along the layout axis, and in a
\* horizontal pass the space an item consumes is at least the width of its
\* painted label, which ends before the glyph of the next item begins.
ItemsNeverOverlapStep ==
    (lastOp' \in {"draw", "inc", "dec"} /\ ~this'.threw) =>
        LET items == this'.group.items
            n == Len(items)
            horizontal == isTopOrBottom(this'.orientation)
            labelWidth(j) == measureSvgTextWidth(items[j].label, this'.data.fontSize)
        IN  /\ \A j \in 1..(n - 1) :
                   IF horizontal
                   THEN /\ items[j + 1].glyphPosition.x > items[j].glyphPosition.x
                        /\ items[j + 1].textPosition.x > items[j].textPosition.x
                   ELSE /\ items[j + 1].glyphPosition.y > items[j].glyphPosition.y
                        /\ items[j + 1].textPosition.y > items[j].textPosition.y
            /\ horizontal =>
                   /\ \A j \in 1..n : ConsumedWidths[j] >= labelWidth(j)
                   /\ \A j \in 1..(n - 1) :
                          items[j].textPosition.x + labelWidth(j)
                              <= items[j + 1].glyphPosition.x
                                 - (getMarkerShapeWidth(items[j + 1].markerShape) \div 2)

ItemsNeverOverlap == [][ItemsNeverOverlapStep]_vars

\* A horizontal pass that has painted three items, the third with its label
\* cut to the budget, to the right of the second.
ItemsNeverOverlapWitness ==
    /\ PassCompleted
    /\ isTopOrBottom(this.orientation)
    /\ Len(this.group.items) >= 3
    /\ this.group.items[3].label.ell
    /\ this.group.items[3].textPosition.x > this.group.items[2].textPosition.x

====
